---- MODULE Spec2Model ----
(***************************************************************************)
(* Supervision kernel (catacomb, as used by the file-notify Watcher),      *)
(* API session (state/api: Open, heartbeatMonitor, Call, Close, Broken)    *)
(* and the dial retry loop of Open.                                        *)
(*                                                                         *)
(* The three parts share no state; each has its own specification, in      *)
(* which the variables of the other parts stay at their initial value.     *)
(***************************************************************************)
EXTENDS Integers, Sequences, FiniteSets, TLC

(***************************************************************************)
(* Bounds of the model.                                                    *)
(***************************************************************************)
\* number of supervision nodes (the root and the workers added under it)
MaxNodes == 3

\* number of client tasks sharing one session (the monitor comes on top)
MaxClients == 2
\* number of requests written to one session's wire
MaxCalls == 3
\* largest dial timeout, retry delay and duration of one attempt, in ticks
MaxTimeout == 4
MaxDelay == 2
MaxDialTime == 1
\* number of times Close is called on one session
MaxCloses == 2
\* largest number of addresses in info.Addrs
MaxAddrs == 2
\* number of distinct process ids
MaxIds == 3
\* number of inotify events the Watcher's loop takes
MaxEvents == 3
\* number of inotify errors the Watcher's loop takes
MaxErrors == 1
\* number of charm URLs
MaxUrls == 2
\* number of calls of storeCharmArchive that get a storage path
MaxStores == 2

Nodes == 1..MaxNodes
Root == 1
NoParent == 0

\* error values
Nil == "nil"
DiskFull == "disk full"
ConnLost == "conn lost"
Errors == {DiskFull, ConnLost}
\* the kernel's dying sentinel (catacomb.ErrDying())
ErrDying == "ErrDying"
Pending == "pending"

VARIABLES
    \* ---- supervision kernel ----
    state,       \* node -> "unborn" | "rejected" | "alive" | "dying" | "dead"
    dyingCloses, \* node -> number of times its Dying channel was closed
    err,         \* node -> the recorded error, or Nil
    parent,      \* node -> the node it was registered under (NoParent: none)
    work,        \* node -> "running" | "returned": the node's own work function
    collected,   \* node -> the result its parent's tracker got from its Wait, Pending before
    waitRes,     \* what the Wait of the root's owner returned, Pending while it has not
    firstReason, \* node -> the first non-nil reason any Kill handed to the node
    \* ---- API session ----
    conn,        \* "up" | "down": the websocket connection under the rpc client
    broken,      \* number of times close(s.broken) ran (0: the channel is open)
    brokenMade,  \* st.broken holds a channel (FALSE: it is nil)
    mon,         \* heartbeatMonitor: "unstarted" | "ping" | "await" | "sleep" | "done"
    cst,         \* caller -> "idle" | "pending" | "ok" | "error" | "closed"
    callId,      \* caller -> correlation id of its current (or last) call, 0: none
    got,         \* caller -> the response its last call received, NoResp: none
    reqId,       \* the rpc client's request counter
    pend,        \* the rpc client's table of pending calls: {[id, caller]}
    wire,        \* requests the server has received and not answered: {[id, arg]}
    atBreak,     \* clients whose call was pending when s.broken was closed
    closing,     \* the rpc client's flag: Close has been called on it
    released,    \* number of times the underlying connection was closed by Close
    closeCalls,  \* number of calls of State.Close so far
    atClose,     \* callers whose call was pending at the first Close
    \* ---- Open: the dial loop ----
    timeout,     \* opts.Timeout, in ticks
    retryDelay,  \* opts.RetryDelay, in ticks
    acceptFrom,  \* the endpoint refuses connections before this time
    trusted,     \* the endpoint's certificate verifies against info.CACert
    caParses,    \* info.CACert holds a certificate that cert.ParseCert accepts
    naddrs,      \* len(info.Addrs)
    tag,         \* info.Tag
    password,    \* info.Password
    loginOK,     \* the server accepts a Login with this tag and password
    dpc,         \* "start" | "next" | "dial" | "connected" | "done"
    cfgAddr,     \* index in info.Addrs of the address in cfg.Location, 0: no cfg yet
    contacted,   \* indexes of the addresses a connection attempt was made to
    dconn,       \* the websocket connection: "none" | "open" | "closed"
    inputLoop,   \* the goroutine of client.Start(): "none" | "running" | "stopped"
    logins,      \* number of Login requests sent
    monStarted,  \* go st.heartbeatMonitor() was executed
    now,         \* time since openAttempt.Start()
    count,       \* connection attempts made
    derr,        \* err of Open: Nil, or the error of the last attempt
    lerr,        \* err of st.Login: Nil, or BadCreds
    dres,        \* what Open returned: "none" | "session" | "failure"
    \* ---- Persistence.Insert ----
    store,       \* ids of the process records in the collection
    ipc,         \* Insert: "idle" | "build" | "apply"
    cur,         \* id of info, the process being inserted (0: none yet)
    attempt,     \* the attempt number the runner hands to buildTxn
    okay,        \* Insert's variable okay
    applied,     \* the runner applied the ops of the current Insert
    ires,        \* what the last Insert returned: [ok, err], NoResult before
    \* ---- filenotifywatcher.Watcher ----
    wpc,         \* loop: "select" | "send" | "closeWatcher" | "closeChanges" | "returned"
    wdying,      \* the Watcher's catacomb is dying (its Dying channel is closed)
    wdead,       \* the Watcher's catacomb is dead
    taken,       \* the inotify events the loop received, in order
    created,     \* loop's variable created: the value it is sending
    delivered,   \* the values received from Changes(), in order
    logged,      \* number of inotify errors the loop logged
    watcherCloses, \* number of calls of w.watcher.Close()
    changesCloses, \* number of times close(w.changes) ran
    waited,      \* a call of Wait() has returned
    \* ---- the charms facade ----
    fctx,        \* the facade.Context of the last NewFacade: [authClient, modelErr]
    fres,        \* what the last NewFacade returned: [api, err], NoFacade before
    blobs,       \* the storage paths that hold an archive
    charmDocs,   \* charm URL -> its document in state: [state, path]
    spc,         \* storeCharmArchive: "idle" | "put" | "update" | "remove" | "done"
    curl,        \* archive.ID of the current call
    uuid,        \* the UUID in the current call's storage path (a counter)
    uerr,        \* err of UpdateUploadedCharm in the current call
    removeErr,   \* storage.Remove returned an error in the current call
    sres         \* what storeCharmArchive returned, NoReturn while it runs

supVars == <<state, dyingCloses, err, parent, work, collected, waitRes, firstReason>>

closeVars == <<closing, released, closeCalls, atClose>>

sessVars == <<conn, broken, brokenMade, mon, cst, callId, got, reqId, pend, wire, atBreak, closeVars>>

dialIn == <<timeout, retryDelay, acceptFrom, trusted, caParses, naddrs, tag, password, loginOK>>

dialVars == <<dialIn, dpc, cfgAddr, contacted, dconn, inputLoop, logins, monStarted, now, count, derr, lerr, dres>>

insVars == <<store, ipc, cur, attempt, okay, applied, ires>>

watVars == <<wpc, wdying, wdead, taken, created, delivered, logged, watcherCloses, changesCloses, waited>>

chVars == <<fctx, fres, blobs, charmDocs, spc, curl, uuid, uerr, removeErr, sres>>

vars == <<supVars, sessVars, dialVars, insVars, watVars, chVars>>

\* a step of one part leaves the other parts alone
SupStep == UNCHANGED <<sessVars, dialVars, insVars, watVars, chVars>>

SessStep == UNCHANGED <<supVars, dialVars, insVars, watVars, chVars>>

DialStep == UNCHANGED <<supVars, sessVars, insVars, watVars, chVars>>

InsStep == UNCHANGED <<supVars, sessVars, dialVars, watVars, chVars>>

WatStep == UNCHANGED <<supVars, sessVars, dialVars, insVars, chVars>>

ChStep == UNCHANGED <<supVars, sessVars, dialVars, insVars, watVars>>

(***************************************************************************)
(* Supervision kernel                                                      *)
(***************************************************************************)
Born(n) == state[n] \in {"alive", "dying", "dead"}

\* the node's Dying signal is closed
Dying(n) == state[n] \in {"dying", "dead"}

Children(n) == {c \in Nodes : parent[c] = n}

RECURSIVE Ancestors(_)
Ancestors(n) == IF parent[n] = NoParent THEN {} ELSE {parent[n]} \cup Ancestors(parent[n])

Descendants(n) == {d \in Nodes : n \in Ancestors(d)}

\* A reason that is an error; nil and the dying sentinel record nothing.
IsError(reason) == reason \in Errors

\* a Kill whose last reason wins
CatacombKillOverwrite(n, reason) ==
    /\ state' = [state EXCEPT ![n] = IF @ = "alive" THEN "dying" ELSE @]
    /\ dyingCloses' = [dyingCloses EXCEPT ![n] = IF state[n] = "alive" THEN @ + 1 ELSE @]
    /\ err' = [err EXCEPT ![n] = IF IsError(reason) THEN reason ELSE @]

\* a Kill that closes the Dying channel without looking at the node's state
CatacombKillReopen(n, reason) ==
    /\ state' = [state EXCEPT ![n] = "dying"]
    /\ dyingCloses' = [dyingCloses EXCEPT ![n] = IF @ < 2 THEN @ + 1 ELSE @]
    /\ err' = [err EXCEPT ![n] = IF @ = Nil /\ IsError(reason) THEN reason ELSE @]

\* a Kill that records its reason and leaves the Dying channel open
CatacombKillRecordOnly(n, reason) ==
    /\ UNCHANGED <<state, dyingCloses>>
    /\ err' = [err EXCEPT ![n] = IF @ = Nil /\ IsError(reason) THEN reason ELSE @]

\* Kill(reason): marks the node dying (closing its Dying signal) and records
\* reason only if it is an error and none is recorded yet.
CatacombKill(n, reason) ==
    /\ state' = [state EXCEPT ![n] = IF @ = "alive" THEN "dying" ELSE @]
    /\ dyingCloses' = [dyingCloses EXCEPT ![n] = IF state[n] = "alive" THEN @ + 1 ELSE @]
    /\ err' = [err EXCEPT ![n] = IF @ = Nil /\ IsError(reason) THEN reason ELSE @]

\* bookkeeping of the reasons handed to a node, in order of arrival
NoteReason(n, reason) ==
    firstReason' = [firstReason EXCEPT ![n] = IF @ = Nil /\ IsError(reason) THEN reason ELSE @]

WatcherKillNothing(n) ==
    /\ UNCHANGED <<state, dyingCloses, err>>
    /\ NoteReason(n, Nil)

\* a Kill() that hands the kernel an error instead of nil
WatcherKillErr(n) ==
    /\ CatacombKill(n, ConnLost)
    /\ NoteReason(n, Nil)

\* func (w *Watcher) Kill() { w.catacomb.Kill(nil) }
WatcherKill(n) ==
    /\ CatacombKill(n, Nil)
    /\ NoteReason(n, Nil)

\* a Register that does not look at the node's state
RegisterAlways(p, c) ==
    /\ Born(p)
    /\ state[c] = "unborn"
    /\ \A m \in Nodes : m < c => state[m] # "unborn"
    /\ state' = [state EXCEPT ![c] = "alive"]
    /\ parent' = [parent EXCEPT ![c] = p]
    /\ UNCHANGED <<dyingCloses, err, work, collected, waitRes, firstReason>>
    /\ SupStep

\* Register(task): the next task (node c) starts under p as a tracked child;
\* when p is already dying Register fails and the task is rejected: it never
\* starts.
Register(p, c) ==
    /\ Born(p)
    /\ state[c] = "unborn"
    /\ \A m \in Nodes : m < c => state[m] # "unborn"
    /\ IF state[p] = "alive"
         THEN /\ state' = [state EXCEPT ![c] = "alive"]
              /\ parent' = [parent EXCEPT ![c] = p]
         ELSE /\ state' = [state EXCEPT ![c] = "rejected"]
              /\ UNCHANGED parent
    /\ UNCHANGED <<dyingCloses, err, work, collected, waitRes, firstReason>>
    /\ SupStep

\* Kill(reason) called from outside, by any caller, at any time.
Kill(n, reason) ==
    /\ Born(n)
    /\ CatacombKill(n, reason)
    /\ NoteReason(n, reason)
    /\ UNCHANGED <<parent, work, collected, waitRes>>
    /\ SupStep

\* Watcher.Kill() called from outside.
Stop(n) ==
    /\ Born(n)
    /\ WatcherKill(n)
    /\ UNCHANGED <<parent, work, collected, waitRes>>
    /\ SupStep

\* The work function's result is handed to Kill when it returns.
WorkReturns(n, result) ==
    /\ work' = [work EXCEPT ![n] = "returned"]
    /\ CatacombKill(n, result)
    /\ NoteReason(n, result)
    /\ UNCHANGED <<parent, collected, waitRes>>

\* a select without the Dying case: the loop keeps waiting for events
loopNoDyingCase(n) ==
    /\ work[n] = "running"
    /\ Dying(n)
    /\ UNCHANGED supVars
    /\ SupStep

\* Watcher.loop: case <-w.catacomb.Dying(): return w.catacomb.ErrDying()
loop(n) ==
    /\ work[n] = "running"
    /\ Dying(n)
    /\ WorkReturns(n, ErrDying)
    /\ SupStep

\* A task's entry function finishing on its own, with success or an error.
TaskReturns(n, result) ==
    /\ work[n] = "running"
    /\ state[n] = "alive"
    /\ WorkReturns(n, result)
    /\ SupStep

\* The tracker of child c sees its parent dying and stops the child.
Propagate(c) ==
    /\ parent[c] # NoParent
    /\ Dying(parent[c])
    /\ state[c] = "alive"
    /\ WatcherKill(c)
    /\ UNCHANGED <<parent, work, collected, waitRes>>
    /\ SupStep

\* a tracker that stops the parent whenever a child exits, failed or not
ReportAnyExitKills(c) ==
    /\ parent[c] # NoParent
    /\ state[c] = "dead"
    /\ collected[c] = Pending
    /\ collected' = [collected EXCEPT ![c] = err[c]]
    /\ CatacombKill(parent[c], err[c])
    /\ NoteReason(parent[c], err[c])
    /\ UNCHANGED <<parent, work, waitRes>>
    /\ SupStep

\* The tracker of child c collects the dead child's result; a non-nil result
\* kills the parent.
Report(c) ==
    /\ parent[c] # NoParent
    /\ state[c] = "dead"
    /\ collected[c] = Pending
    /\ collected' = [collected EXCEPT ![c] = err[c]]
    /\ IF err[c] # Nil
         THEN CatacombKill(parent[c], err[c]) /\ NoteReason(parent[c], err[c])
         ELSE UNCHANGED <<state, dyingCloses, err, firstReason>>
    /\ UNCHANGED <<parent, work, waitRes>>
    /\ SupStep

\* a kernel whose death needs at least one tracked child to have finished
FinishNeedsChild(n) ==
    /\ state[n] = "dying"
    /\ work[n] = "returned"
    /\ Children(n) # {}
    /\ \A c \in Children(n) : collected[c] # Pending
    /\ state' = [state EXCEPT ![n] = "dead"]
    /\ UNCHANGED <<dyingCloses, err, parent, work, collected, waitRes, firstReason>>
    /\ SupStep

\* The node is dead once its work function returned and every tracked child
\* has been collected.
Finish(n) ==
    /\ state[n] = "dying"
    /\ work[n] = "returned"
    /\ \A c \in Children(n) : collected[c] # Pending
    /\ state' = [state EXCEPT ![n] = "dead"]
    /\ UNCHANGED <<dyingCloses, err, parent, work, collected, waitRes, firstReason>>
    /\ SupStep

WatcherWaitNoBlock(n) ==
    /\ Born(n)
    /\ waitRes = Pending
    /\ waitRes' = err[n]
    /\ UNCHANGED <<state, dyingCloses, err, parent, work, collected, firstReason>>
    /\ SupStep

WatcherWaitNil(n) ==
    /\ state[n] = "dead"
    /\ waitRes = Pending
    /\ waitRes' = Nil
    /\ UNCHANGED <<state, dyingCloses, err, parent, work, collected, firstReason>>
    /\ SupStep

\* func (w *Watcher) Wait() error { return w.catacomb.Wait() }
WatcherWait(n) ==
    /\ state[n] = "dead"
    /\ waitRes = Pending
    /\ waitRes' = err[n]
    /\ UNCHANGED <<state, dyingCloses, err, parent, work, collected, firstReason>>
    /\ SupStep

SupInit ==
    /\ state = [n \in Nodes |-> IF n = Root THEN "alive" ELSE "unborn"]
    /\ dyingCloses = [n \in Nodes |-> 0]
    /\ err = [n \in Nodes |-> Nil]
    /\ parent = [n \in Nodes |-> NoParent]
    /\ work = [n \in Nodes |-> "running"]
    /\ collected = [n \in Nodes |-> Pending]
    /\ waitRes = Pending
    /\ firstReason = [n \in Nodes |-> Nil]

SupNext ==
    \/ \E p, c \in Nodes : Register(p, c)
    \/ \E n \in Nodes, r \in Errors : Kill(n, r)
    \/ \E n \in Nodes : Stop(n)
    \/ \E n \in Nodes : loop(n)
    \/ \E n \in Nodes, r \in Errors \cup {Nil} : TaskReturns(n, r)
    \/ \E c \in Nodes : Propagate(c)
    \/ \E c \in Nodes : Report(c)
    \/ \E n \in Nodes : Finish(n)
    \/ WatcherWait(Root)


(***************************************************************************)
(* API session: State.Call over the rpc client, heartbeatMonitor, Close    *)
(***************************************************************************)
Monitor == 0
Clients == 1..MaxClients
Callers == {Monitor} \cup Clients
NoResp == [id |-> 0, payload |-> 0 - 1]
Refused == "refused"
\* the TLS handshake's error for a certificate the CA did not sign
BadCert == "bad certificate"
\* Login's error for a tag or password the server rejects
BadCreds == "bad credentials"
\* cert.ParseCert's error for bytes that hold no certificate
BadCA == "no certificate"

\* clientError: a server's error reply becomes an api error; any other
\* error (the rpc client's shutdown error) and nil pass unchanged.
clientError(e) == IF e = "RequestError" THEN "error" ELSE e

\* what a caller's Call returns for an rpc outcome
CallResult(e) == IF clientError(e) = Nil THEN "ok" ELSE clientError(e)

\* a client whose counter is not advanced: two calls share an id
ClientCallSameId(c) ==
    IF conn = "down"
      THEN /\ cst' = [cst EXCEPT ![c] = CallResult("closed")]
           /\ got' = [got EXCEPT ![c] = NoResp]
           /\ UNCHANGED <<callId, reqId, pend, wire>>
      ELSE /\ reqId < MaxCalls
           /\ reqId' = reqId + 1
           /\ callId' = [callId EXCEPT ![c] = 1]
           /\ pend' = pend \cup {[id |-> 1, caller |-> c]}
           /\ wire' = wire \cup {[id |-> 1, arg |-> c]}
           /\ cst' = [cst EXCEPT ![c] = "pending"]
           /\ got' = [got EXCEPT ![c] = NoResp]

\* rpc client, Call: on a connection that is shut down it fails at once;
\* otherwise it takes the next correlation id, records the pending call and
\* writes the request; the caller then blocks.
ClientCall(c) ==
    IF conn = "down"
      THEN /\ cst' = [cst EXCEPT ![c] = CallResult("closed")]
           /\ got' = [got EXCEPT ![c] = NoResp]
           /\ UNCHANGED <<callId, reqId, pend, wire>>
      ELSE /\ reqId < MaxCalls
           /\ reqId' = reqId + 1
           /\ callId' = [callId EXCEPT ![c] = reqId + 1]
           /\ pend' = pend \cup {[id |-> reqId + 1, caller |-> c]}
           /\ wire' = wire \cup {[id |-> reqId + 1, arg |-> c]}
           /\ cst' = [cst EXCEPT ![c] = "pending"]
           /\ got' = [got EXCEPT ![c] = NoResp]

\* func (s *State) Call(...): s.client.Call(...), then clientError(err)
StateCall(c) ==
    /\ cst[c] # "pending"
    /\ ClientCall(c)

\* A client task issues a Call.
Call(c) ==
    /\ mon # "unstarted"
    /\ StateCall(c)
    /\ UNCHANGED <<conn, broken, mon, atBreak>>
    /\ UNCHANGED <<brokenMade, closeVars>>
    /\ SessStep

\* a dispatcher that hands a response to whichever call is pending
RespondAnyCaller(req, outcome) ==
    /\ conn = "up"
    /\ req \in wire
    /\ \E p \in pend :
         /\ cst' = [cst EXCEPT ![p.caller] = CallResult(outcome)]
         /\ got' = [got EXCEPT ![p.caller] = [id |-> req.id, payload |-> req.arg]]
         /\ pend' = pend \ {p}
         /\ atBreak' = atBreak \ {p.caller}
    /\ wire' = wire \ {req}
    /\ UNCHANGED <<conn, broken, mon, callId, reqId>>
    /\ UNCHANGED <<brokenMade, closeVars>>
    /\ SessStep

\* The server answers one of the requests it holds, in any order, with a
\* result or an error; the rpc client routes the response by its id to the
\* pending call and wakes that caller.
Respond(req, outcome) ==
    /\ conn = "up"
    /\ req \in wire
    /\ \E p \in pend :
         /\ p.id = req.id
         /\ cst' = [cst EXCEPT ![p.caller] = CallResult(outcome)]
         /\ got' = [got EXCEPT ![p.caller] = [id |-> req.id, payload |-> req.arg]]
         /\ pend' = pend \ {p}
         /\ atBreak' = atBreak \ {p.caller}
    /\ wire' = wire \ {req}
    /\ UNCHANGED <<conn, broken, mon, callId, reqId>>
    /\ UNCHANGED <<brokenMade, closeVars>>
    /\ SessStep

\* The transport fails (network, or the server going away).
TransportFail ==
    /\ conn = "up"
    /\ conn' = "down"
    /\ wire' = {}
    /\ UNCHANGED <<broken, mon, cst, callId, got, reqId, pend, atBreak>>
    /\ UNCHANGED <<brokenMade, closeVars>>
    /\ SessStep

\* rpc client, Close: the first Close marks the client closing and releases
\* the connection; a Close on a client that is closing already does nothing.
ClientClose ==
    IF closing
      THEN UNCHANGED <<conn, wire, closing, released, atClose>>
      ELSE /\ closing' = TRUE
           /\ released' = released + 1
           /\ conn' = "down"
           /\ wire' = {}
           /\ atClose' = {c \in Callers : cst[c] = "pending"}

\* a Close that closes the websocket itself, each time it is called
CloseConnEveryTime ==
    /\ mon # "unstarted"
    /\ closeCalls < MaxCloses
    /\ closeCalls' = closeCalls + 1
    /\ closing' = TRUE
    /\ released' = released + 1
    /\ conn' = "down"
    /\ wire' = {}
    /\ atClose' = IF closing THEN atClose ELSE {c \in Callers : cst[c] = "pending"}
    /\ UNCHANGED <<broken, brokenMade, mon, cst, callId, got, reqId, pend, atBreak>>
    /\ SessStep

\* a Close that returns without closing anything
CloseNoop ==
    /\ mon # "unstarted"
    /\ closeCalls < MaxCloses
    /\ closeCalls' = closeCalls + 1
    /\ UNCHANGED <<conn, wire, closing, released, atClose>>
    /\ UNCHANGED <<broken, brokenMade, mon, cst, callId, got, reqId, pend, atBreak>>
    /\ SessStep

\* func (s *State) Close() error { return s.client.Close() }
\* called by any owner of the session, any number of times
Close ==
    /\ mon # "unstarted"
    /\ closeCalls < MaxCloses
    /\ closeCalls' = closeCalls + 1
    /\ ClientClose
    /\ UNCHANGED <<broken, brokenMade, mon, cst, callId, got, reqId, pend, atBreak>>
    /\ SessStep

\* rpc client: once the connection is down every pending call is failed with
\* the shutdown error.
FailPending(c) ==
    /\ conn = "down"
    /\ \E p \in pend :
         /\ p.caller = c
         /\ pend' = pend \ {p}
    /\ cst' = [cst EXCEPT ![c] = CallResult("closed")]
    /\ atBreak' = atBreak \ {c}
    /\ UNCHANGED <<conn, broken, mon, callId, got, reqId, wire>>
    /\ UNCHANGED <<brokenMade, closeVars>>
    /\ SessStep

\* heartbeatMonitor: ping := s.Call("State", "", "Ping", nil, nil)
MonitorPing ==
    /\ mon = "ping"
    /\ StateCall(Monitor)
    /\ mon' = "await"
    /\ UNCHANGED <<conn, broken, atBreak>>
    /\ UNCHANGED <<brokenMade, closeVars>>
    /\ SessStep

\* a monitor that closes the channel and keeps pinging
MonitorResultNoReturn ==
    /\ mon = "await"
    /\ cst[Monitor] # "pending"
    /\ IF cst[Monitor] # "ok"
         THEN /\ broken' = IF broken < 2 THEN broken + 1 ELSE broken
              /\ atBreak' = {c \in Clients : cst[c] = "pending"}
         ELSE UNCHANGED <<broken, atBreak>>
    /\ mon' = "sleep"
    /\ UNCHANGED <<conn, cst, callId, got, reqId, pend, wire>>
    /\ UNCHANGED <<brokenMade, closeVars>>
    /\ SessStep

\* a monitor that drops the ping's error
MonitorResultIgnoreErr ==
    /\ mon = "await"
    /\ cst[Monitor] # "pending"
    /\ mon' = "sleep"
    /\ UNCHANGED <<conn, broken, atBreak, cst, callId, got, reqId, pend, wire>>
    /\ UNCHANGED <<brokenMade, closeVars>>
    /\ SessStep

\* a monitor whose test is inverted
MonitorResultInverted ==
    /\ mon = "await"
    /\ cst[Monitor] # "pending"
    /\ IF cst[Monitor] = "ok"
         THEN /\ broken' = IF broken < 2 THEN broken + 1 ELSE broken
              /\ atBreak' = {c \in Clients : cst[c] = "pending"}
              /\ mon' = "done"
         ELSE /\ mon' = "sleep"
              /\ UNCHANGED <<broken, atBreak>>
    /\ UNCHANGED <<conn, cst, callId, got, reqId, pend, wire>>
    /\ UNCHANGED <<brokenMade, closeVars>>
    /\ SessStep

\* heartbeatMonitor: if err := ping(); err != nil { close(s.broken); return }
MonitorResult ==
    /\ mon = "await"
    /\ cst[Monitor] # "pending"
    /\ IF cst[Monitor] # "ok"
         THEN /\ broken' = IF broken < 2 THEN broken + 1 ELSE broken
              /\ atBreak' = {c \in Clients : cst[c] = "pending"}
              /\ mon' = "done"
         ELSE /\ mon' = "sleep"
              /\ UNCHANGED <<broken, atBreak>>
    /\ UNCHANGED <<conn, cst, callId, got, reqId, pend, wire>>
    /\ UNCHANGED <<brokenMade, closeVars>>
    /\ SessStep

\* heartbeatMonitor: time.Sleep(PingPeriod) is over
MonitorWake ==
    /\ mon = "sleep"
    /\ mon' = "ping"
    /\ UNCHANGED <<conn, broken, cst, callId, got, reqId, pend, wire, atBreak>>
    /\ UNCHANGED <<brokenMade, closeVars>>
    /\ SessStep

\* Open: st.broken = make(chan struct{})
OpenMakeBroken ==
    /\ mon = "unstarted"
    /\ ~brokenMade
    /\ brokenMade' = TRUE
    /\ UNCHANGED <<conn, broken, mon, cst, callId, got, reqId, pend, wire, atBreak, closeVars>>
    /\ SessStep

\* an Open that starts the monitor before it makes the channel
OpenGoMonitorEarly ==
    /\ mon = "unstarted"
    /\ mon' = "ping"
    /\ UNCHANGED <<conn, broken, brokenMade, cst, callId, got, reqId, pend, wire, atBreak, closeVars>>
    /\ SessStep

\* Open: go st.heartbeatMonitor(); return st, nil
OpenGoMonitor ==
    /\ mon = "unstarted"
    /\ brokenMade
    /\ mon' = "ping"
    /\ UNCHANGED <<conn, broken, brokenMade, cst, callId, got, reqId, pend, wire, atBreak, closeVars>>
    /\ SessStep

\* The State that Open has just built on an established connection, logged
\* in if need be: st := &State{client: client, conn: conn}
SessInit ==
    /\ conn = "up"
    /\ broken = 0
    /\ brokenMade = FALSE
    /\ mon = "unstarted"
    /\ cst = [c \in Callers |-> "idle"]
    /\ callId = [c \in Callers |-> 0]
    /\ got = [c \in Callers |-> NoResp]
    /\ reqId = 0
    /\ pend = {}
    /\ wire = {}
    /\ atBreak = {}
    /\ closing = FALSE
    /\ released = 0
    /\ closeCalls = 0
    /\ atClose = {}

SessNext ==
    \/ OpenMakeBroken
    \/ OpenGoMonitor
    \/ \E c \in Clients : Call(c)
    \/ \E req \in wire, o \in {Nil, "RequestError"} : Respond(req, o)
    \/ TransportFail
    \/ Close
    \/ \E c \in Callers : FailPending(c)
    \/ MonitorPing
    \/ MonitorResult
    \/ MonitorWake

(***************************************************************************)
(* Open: the dial loop                                                     *)
(***************************************************************************)
\* an attempt strategy without the forced first attempt
AttemptNextNoForce ==
    IF ~(now + retryDelay < timeout)
      THEN FALSE
      ELSE TRUE

\* utils.AttemptStrategy, Attempt.Next: the first attempt is always made;
\* a later one only if the delay still ends before the total time is over.
AttemptNext ==
    IF count > 0 /\ ~(now + retryDelay < timeout)
      THEN FALSE
      ELSE TRUE

\* an Open that takes the last address of info.Addrs
OpenStartLastAddr ==
    /\ dpc = "start"
    /\ cfgAddr' = naddrs
    /\ IF caParses
         THEN /\ dpc' = "next"
              /\ UNCHANGED <<derr, dres>>
         ELSE /\ dpc' = "done"
              /\ derr' = BadCA
              /\ dres' = "failure"
    /\ UNCHANGED <<dialIn, contacted, dconn, inputLoop, logins, monStarted, now, count, lerr>>
    /\ DialStep

\* an Open that goes on with an empty pool when the CA certificate is bad
OpenStartIgnoreParseErr ==
    /\ dpc = "start"
    /\ cfgAddr' = 1
    /\ dpc' = "next"
    /\ UNCHANGED <<derr, dres>>
    /\ UNCHANGED <<dialIn, contacted, dconn, inputLoop, logins, monStarted, now, count, lerr>>
    /\ DialStep

\* Open: cfg, err := websocket.NewConfig("wss://"+info.Addrs[0]+"/", ...);
\* xcert, err := cert.ParseCert(info.CACert); if err != nil { return nil, err }
OpenStart ==
    /\ dpc = "start"
    /\ cfgAddr' = 1
    /\ IF caParses
         THEN /\ dpc' = "next"
              /\ UNCHANGED <<derr, dres>>
         ELSE /\ dpc' = "done"
              /\ derr' = BadCA
              /\ dres' = "failure"
    /\ UNCHANGED <<dialIn, contacted, dconn, inputLoop, logins, monStarted, now, count, lerr>>
    /\ DialStep

\* an Open that does not look at the error the loop ended with
OpenNextNoErrCheck ==
    /\ dpc = "next"
    /\ IF AttemptNext
         THEN /\ now' = IF count > 0 THEN now + retryDelay ELSE now
              /\ count' = count + 1
              /\ dpc' = "dial"
              /\ UNCHANGED <<derr, dres>>
         ELSE /\ dpc' = "connected"
              /\ UNCHANGED <<now, count, derr, dres>>
    /\ UNCHANGED <<dialIn, cfgAddr, contacted, dconn, inputLoop, logins, monStarted, lerr>>
    /\ DialStep

\* Open: for a := openAttempt.Start(); a.Next(); { ... }; when the loop is
\* over: if err != nil { return nil, err }
OpenNext ==
    /\ dpc = "next"
    /\ IF AttemptNext
         THEN /\ now' = IF count > 0 THEN now + retryDelay ELSE now
              /\ count' = count + 1
              /\ dpc' = "dial"
              /\ UNCHANGED <<derr, dres>>
         ELSE /\ dpc' = IF derr # Nil THEN "done" ELSE "connected"
              /\ dres' = IF derr # Nil THEN "failure" ELSE dres
              /\ UNCHANGED <<now, count, derr>>
    /\ UNCHANGED <<dialIn, cfgAddr, contacted, dconn, inputLoop, logins, monStarted, lerr>>
    /\ DialStep

\* a handshake that accepts any certificate
DialConfigNoVerify(t) ==
    IF t < acceptFrom THEN Refused
    ELSE Nil

\* websocket.DialConfig(cfg) ending at time t: the endpoint refuses the
\* connection, or accepts it and the TLS handshake verifies its certificate
\* against the pool made of info.CACert.
DialConfig(t) ==
    IF t < acceptFrom THEN Refused
    ELSE IF ~trusted THEN BadCert
    ELSE Nil

\* a loop that goes on after a successful attempt
OpenDialNoBreak(d) ==
    /\ dpc = "dial"
    /\ d >= 1 \/ retryDelay >= 1
    /\ now' = now + d
    /\ contacted' = contacted \cup {cfgAddr}
    /\ derr' = DialConfig(now + d)
    /\ dconn' = IF DialConfig(now + d) = Nil THEN "open" ELSE dconn
    /\ dpc' = "next"
    /\ UNCHANGED <<dialIn, cfgAddr, inputLoop, logins, monStarted, count, lerr, dres>>
    /\ DialStep

\* Open: conn, err = websocket.DialConfig(cfg); if err == nil { break }
\* The attempt takes d ticks (time passes in every turn of the loop: an
\* attempt is instantaneous only if the retry delay is not zero). Any error
\* of the attempt, whatever its kind, is logged and the loop goes on.
OpenDial(d) ==
    /\ dpc = "dial"
    /\ d >= 1 \/ retryDelay >= 1
    /\ now' = now + d
    /\ contacted' = contacted \cup {cfgAddr}
    /\ derr' = DialConfig(now + d)
    /\ dconn' = IF DialConfig(now + d) = Nil THEN "open" ELSE dconn
    /\ dpc' = IF DialConfig(now + d) = Nil THEN "connected" ELSE "next"
    /\ UNCHANGED <<dialIn, cfgAddr, inputLoop, logins, monStarted, count, lerr, dres>>
    /\ DialStep

\* what Open does with the connection once it is established, given the
\* test that decides whether to log in
OpenSession(login) ==
    /\ dpc = "connected"
    /\ inputLoop' = "running"
    /\ dpc' = "done"
    /\ logins' = IF login THEN logins + 1 ELSE logins
    /\ IF login /\ ~loginOK
         THEN /\ lerr' = BadCreds
              /\ dconn' = "closed"
              /\ dres' = "failure"
              /\ UNCHANGED monStarted
         ELSE /\ lerr' = Nil
              /\ monStarted' = TRUE
              /\ dres' = "session"
              /\ UNCHANGED dconn
    /\ UNCHANGED <<dialIn, cfgAddr, contacted, now, count, derr>>
    /\ DialStep

\* a Login whose error is dropped
OpenLoginIgnoreErr ==
    /\ dpc = "connected"
    /\ inputLoop' = "running"
    /\ dpc' = "done"
    /\ logins' = IF tag # "" \/ password # "" THEN logins + 1 ELSE logins
    /\ lerr' = IF (tag # "" \/ password # "") /\ ~loginOK THEN BadCreds ELSE Nil
    /\ monStarted' = TRUE
    /\ dres' = "session"
    /\ UNCHANGED <<dialIn, cfgAddr, contacted, dconn, now, count, derr>>
    /\ DialStep

\* a failed Login that returns without closing the connection
OpenLoginNoClose ==
    /\ dpc = "connected"
    /\ inputLoop' = "running"
    /\ dpc' = "done"
    /\ logins' = IF tag # "" \/ password # "" THEN logins + 1 ELSE logins
    /\ IF (tag # "" \/ password # "") /\ ~loginOK
         THEN /\ lerr' = BadCreds
              /\ dres' = "failure"
              /\ UNCHANGED monStarted
         ELSE /\ lerr' = Nil
              /\ monStarted' = TRUE
              /\ dres' = "session"
    /\ UNCHANGED <<dialIn, cfgAddr, contacted, dconn, now, count, derr>>
    /\ DialStep

\* a Login that needs both the tag and the password
OpenLoginBothNeeded == OpenSession(tag # "" /\ password # "")

\* Open, once connected: client := rpc.NewConn(...); client.Start();
\* if info.Tag != "" || info.Password != "" { if err := st.Login(...);
\* err != nil { conn.Close(); return nil, err } };
\* st.broken = make(chan struct{}); go st.heartbeatMonitor(); return st, nil
OpenLogin == OpenSession(tag # "" \/ password # "")

\* rpc client: the goroutine started by client.Start() reads from the
\* connection and ends when the connection is closed under it.
InputLoopExit ==
    /\ inputLoop = "running"
    /\ dconn = "closed"
    /\ inputLoop' = "stopped"
    /\ UNCHANGED <<dialIn, dpc, cfgAddr, contacted, dconn, logins, monStarted, now, count, derr, lerr, dres>>
    /\ DialStep

\* Open is called with some Info and some DialOpts, against an endpoint that
\* refuses connections until some time (a time later than any attempt: for
\* ever).
DialInit ==
    /\ timeout \in 0..MaxTimeout
    /\ retryDelay \in 0..MaxDelay
    /\ acceptFrom \in 0..(MaxTimeout + MaxDialTime + 1)
    /\ trusted \in BOOLEAN
    /\ caParses \in BOOLEAN
    /\ naddrs \in 1..MaxAddrs
    /\ tag \in {"", "user-admin"}
    /\ password \in {"", "secret"}
    /\ loginOK \in BOOLEAN
    /\ dpc = "start"
    /\ cfgAddr = 0
    /\ contacted = {}
    /\ dconn = "none"
    /\ inputLoop = "none"
    /\ logins = 0
    /\ monStarted = FALSE
    /\ now = 0
    /\ count = 0
    /\ derr = Nil
    /\ lerr = Nil
    /\ dres = "none"

DialNext ==
    \/ OpenStart
    \/ OpenNext
    \/ \E d \in 0..MaxDialTime : OpenDial(d)
    \/ OpenLogin
    \/ InputLoopExit

(***************************************************************************)
(* Persistence.Insert over a transaction runner                            *)
(***************************************************************************)
Ids == 1..MaxIds
NoResult == [ok |-> FALSE, err |-> "none"]
\* jujutxn.ErrNoOperations
ErrNoOperations == "ErrNoOperations"
\* an error of the runner that is not a request for another attempt
TxnFailed == "txn failed"

\* a buildTxn that forgets to reset okay on a later attempt
buildTxnKeepsOkay(a) ==
    IF a > 0
      THEN [okay |-> okay, ops |-> FALSE, err |-> ErrNoOperations]
      ELSE [okay |-> TRUE, ops |-> TRUE, err |-> Nil]

\* buildTxn := func(attempt int) ([]txn.Op, error): on the first attempt the
\* insert ops, with okay = true; on any later attempt no ops and
\* ErrNoOperations, with okay = false.
buildTxn(a) ==
    IF a > 0
      THEN [okay |-> FALSE, ops |-> FALSE, err |-> ErrNoOperations]
      ELSE [okay |-> TRUE, ops |-> TRUE, err |-> Nil]

\* Insert(info) is called: ops are prepared and pp.st.Run(buildTxn) starts
\* with attempt 0.
InsertCall(id) ==
    /\ ipc = "idle"
    /\ ipc' = "build"
    /\ cur' = id
    /\ attempt' = 0
    /\ okay' = FALSE
    /\ applied' = FALSE
    /\ ires' = NoResult
    /\ UNCHANGED store
    /\ InsStep

\* The runner calls buildTxn(attempt). ErrNoOperations ends Run without
\* error and Insert returns (okay, nil); otherwise the runner goes on to
\* apply the ops.
RunBuild ==
    /\ ipc = "build"
    /\ okay' = buildTxn(attempt).okay
    /\ IF buildTxn(attempt).err = ErrNoOperations
         THEN /\ ipc' = "idle"
              /\ ires' = [ok |-> buildTxn(attempt).okay, err |-> Nil]
         ELSE /\ ipc' = "apply"
              /\ UNCHANGED ires
    /\ UNCHANGED <<store, cur, attempt, applied>>
    /\ InsStep

\* The runner applies the ops: the insert asserts that the record is
\* missing. If it is, the record is written, Run returns nil and Insert
\* returns (okay, nil); if the record is there the transaction is aborted
\* and the runner asks for the next attempt.
RunApply ==
    /\ ipc = "apply"
    /\ IF cur \notin store
         THEN /\ store' = store \cup {cur}
              /\ applied' = TRUE
              /\ ipc' = "idle"
              /\ ires' = [ok |-> okay, err |-> Nil]
              /\ UNCHANGED attempt
         ELSE /\ attempt' = attempt + 1
              /\ ipc' = "build"
              /\ UNCHANGED <<store, applied, ires>>
    /\ UNCHANGED <<cur, okay>>
    /\ InsStep

\* The runner fails with another error: Run returns it and Insert returns
\* (false, errors.Trace(err)).
RunFails ==
    /\ ipc = "apply"
    /\ ipc' = "idle"
    /\ ires' = [ok |-> FALSE, err |-> TxnFailed]
    /\ UNCHANGED <<store, cur, attempt, okay, applied>>
    /\ InsStep

\* Another writer inserts or removes a record of the collection.
OtherWriter(id) ==
    /\ store' = IF id \in store THEN store \ {id} ELSE store \cup {id}
    /\ UNCHANGED <<ipc, cur, attempt, okay, applied, ires>>
    /\ InsStep

\* A collection holding any records, and no Insert called yet.
InsInit ==
    /\ store \in SUBSET Ids
    /\ ipc = "idle"
    /\ cur = 0
    /\ attempt = 0
    /\ okay = FALSE
    /\ applied = FALSE
    /\ ires = NoResult

InsNext ==
    \/ \E id \in Ids : InsertCall(id)
    \/ RunBuild
    \/ RunApply
    \/ RunFails
    \/ \E id \in Ids : OtherWriter(id)

(***************************************************************************)
(* filenotifywatcher.Watcher: one watcher over one namespace file          *)
(***************************************************************************)
\* bits of an inotify event mask
InModify == 2
InCreate == 256
InDelete == 512

HasBit(m, b) == (m \div b) % 2 = 1

Masks == {InModify, InCreate, InDelete, InCreate + InDelete, InCreate + InModify}

\* o.path and namespace of NewWatcher; a file name is <<directory, file>>
WatcherPath == "watchers"
Namespace == "ns"

Join(dir, name) == <<dir, name>>

watchPath == Join(WatcherPath, Namespace)

EventNames == {Join(WatcherPath, Namespace), Join(WatcherPath, "other")}

Events == [Name : EventNames, Mask : Masks]

\* maskType with the delete bit not looked at
maskTypeCreateOnly(m) ==
    IF HasBit(m, InCreate) THEN "created" ELSE "unknown"

maskType(m) ==
    IF HasBit(m, InCreate) THEN "created"
    ELSE IF HasBit(m, InDelete) THEN "deleted"
    ELSE "unknown"

\* Watcher.Kill: w.catacomb.Kill(nil) closes the Dying channel
NotifyKill ==
    /\ wdying' = TRUE
    /\ UNCHANGED <<wpc, wdead, taken, created, delivered, logged, watcherCloses, changesCloses, waited>>
    /\ WatStep

\* loop, case <-w.catacomb.Dying(): return, the deferred function runs next
loopDying ==
    /\ wpc = "select"
    /\ wdying
    /\ wpc' = "closeWatcher"
    /\ UNCHANGED <<wdying, wdead, taken, created, delivered, logged, watcherCloses, changesCloses, waited>>
    /\ WatStep

\* loop, case event := <-w.watcher.Events(): the event is dropped, or its
\* value is computed and the loop goes on to send it
loopEvent(event) ==
    /\ wpc = "select"
    /\ Len(taken) < MaxEvents
    /\ taken' = Append(taken, event)
    /\ IF event.Name # watchPath \/ maskType(event.Mask) = "unknown"
       THEN UNCHANGED <<wpc, created>>
       ELSE /\ created' = HasBit(event.Mask, InCreate)
            /\ wpc' = "send"
    /\ UNCHANGED <<wdying, wdead, delivered, logged, watcherCloses, changesCloses, waited>>
    /\ WatStep

\* loop, w.changes <- created: the channel has no buffer, the send goes
\* through when a receiver takes the value
loopSend ==
    /\ wpc = "send"
    /\ delivered' = Append(delivered, created)
    /\ wpc' = "select"
    /\ UNCHANGED <<wdying, wdead, taken, created, logged, watcherCloses, changesCloses, waited>>
    /\ WatStep

\* loop, case err := <-w.watcher.Errors(): the error is logged
loopError ==
    /\ wpc = "select"
    /\ logged < MaxErrors
    /\ logged' = logged + 1
    /\ UNCHANGED <<wpc, wdying, wdead, taken, created, delivered, watcherCloses, changesCloses, waited>>
    /\ WatStep

\* the deferred function without its first statement
loopDeferSkipWatcherClose ==
    /\ wpc = "closeWatcher"
    /\ wpc' = "closeChanges"
    /\ UNCHANGED <<wdying, wdead, taken, created, delivered, logged, watcherCloses, changesCloses, waited>>
    /\ WatStep

\* the deferred function, _ = w.watcher.Close()
loopDeferWatcherClose ==
    /\ wpc = "closeWatcher"
    /\ watcherCloses' = watcherCloses + 1
    /\ wpc' = "closeChanges"
    /\ UNCHANGED <<wdying, wdead, taken, created, delivered, logged, changesCloses, waited>>
    /\ WatStep

\* the deferred function, close(w.changes)
loopDeferCloseChanges ==
    /\ wpc = "closeChanges"
    /\ changesCloses' = changesCloses + 1
    /\ wpc' = "returned"
    /\ UNCHANGED <<wdying, wdead, taken, created, delivered, logged, watcherCloses, waited>>
    /\ WatStep

\* catacomb.Invoke's goroutine: loop has returned, the catacomb is killed
\* with its result and becomes dead
InvokeDone ==
    /\ wpc = "returned"
    /\ ~wdead
    /\ wdying' = TRUE
    /\ wdead' = TRUE
    /\ UNCHANGED <<wpc, taken, created, delivered, logged, watcherCloses, changesCloses, waited>>
    /\ WatStep

\* Watcher.Wait: w.catacomb.Wait() returns once the catacomb is dead
NotifyWait ==
    /\ wdead
    /\ ~waited
    /\ waited' = TRUE
    /\ UNCHANGED <<wpc, wdying, wdead, taken, created, delivered, logged, watcherCloses, changesCloses>>
    /\ WatStep

\* NewWatcher returned: the loop is in its select, nothing has happened
WatInit ==
    /\ wpc = "select"
    /\ wdying = FALSE
    /\ wdead = FALSE
    /\ taken = <<>>
    /\ created = FALSE
    /\ delivered = <<>>
    /\ logged = 0
    /\ watcherCloses = 0
    /\ changesCloses = 0
    /\ waited = FALSE

WatNext ==
    \/ NotifyKill
    \/ loopDying
    \/ \E event \in Events : loopEvent(event)
    \/ loopSend
    \/ loopError
    \/ loopDeferWatcherClose
    \/ loopDeferCloseChanges
    \/ InvokeDone
    \/ NotifyWait

(***************************************************************************)
(* The charms facade: NewFacade and API.storeCharmArchive                  *)
(***************************************************************************)
\* error values of the facade: [kind, traced], traced when errors.Trace or
\* errors.Annotate wrapped it
CErr(kind, traced) == [kind |-> kind, traced |-> traced]

NoErr == CErr("nil", FALSE)
NoReturn == CErr("none", FALSE)
CharmsErrPerm == CErr("permission denied", FALSE)
ModelErr == CErr("cannot read model", FALSE)
ErrCharmRevisionAlreadyModified == CErr("charm revision already modified", FALSE)
ErrCharmAlreadyUploaded == CErr("charm already uploaded", FALSE)
StateErr == CErr("state unavailable", FALSE)
NotFound == CErr("charm not found", FALSE)
PutErr == CErr("cannot add charm to storage", TRUE)
NameErr == CErr("cannot generate charm archive name", TRUE)

Trace(e) == CErr(e.kind, TRUE)
Cause(e) == CErr(e.kind, FALSE)
IsCharmAlreadyUploadedError(e) == Cause(e) = ErrCharmAlreadyUploaded

\* the errors UpdateUploadedCharm gives for a charm that is no longer pending
AlreadyErrs ==
    {ErrCharmRevisionAlreadyModified, Trace(ErrCharmRevisionAlreadyModified),
     Trace(ErrCharmAlreadyUploaded)}

Contexts == [authClient : BOOLEAN, modelErr : BOOLEAN]
NoFacade == [api |-> "none", err |-> NoReturn]

NewFacadeV3(ctx) ==
    IF ~ctx.authClient THEN [api |-> "nil", err |-> CharmsErrPerm]
    ELSE IF ctx.modelErr THEN [api |-> "nil", err |-> Trace(ModelErr)]
    ELSE [api |-> "API", err |-> NoErr]

NewFacade(ctx) ==
    LET v3 == NewFacadeV3(ctx)
    IN  IF v3.err # NoErr THEN [api |-> "nil", err |-> NoErr]
        ELSE [api |-> "APIv2", err |-> NoErr]

\* the facade factory is called for a connection
NewFacadeCall(ctx) ==
    /\ fctx' = ctx
    /\ fres' = NewFacade(ctx)
    /\ UNCHANGED <<blobs, charmDocs, spc, curl, uuid, uerr, removeErr, sres>>
    /\ ChStep

Urls == 1..MaxUrls
\* storage paths: <<charm URL, uuid>>; uuid 0 is an upload by somebody else
Paths == Urls \X (0..MaxStores)
NoPath == <<0, 0>>

\* a charm document: unknown, a placeholder waiting for its archive, or
\* uploaded with the storage path of the archive
AbsentDoc == [state |-> "absent", path |-> NoPath]
PendingDoc == [state |-> "pending", path |-> NoPath]
UploadedDoc(p) == [state |-> "uploaded", path |-> p]

\* err of UpdateUploadedCharm says the charm was uploaded by somebody else
alreadyUploaded(e) ==
    \/ e = ErrCharmRevisionAlreadyModified
    \/ Cause(e) = ErrCharmRevisionAlreadyModified
    \/ IsCharmAlreadyUploadedError(e)

\* storeCharmArchive up to the storage path: charmArchiveStoragePath fails
\* when no UUID can be made
storeCharmArchive(url, uuidOK) ==
    /\ spc \in {"idle", "done"}
    /\ uuid < MaxStores
    /\ curl' = url
    /\ uerr' = NoErr
    /\ removeErr' = FALSE
    /\ IF uuidOK
       THEN /\ uuid' = uuid + 1
            /\ spc' = "put"
            /\ sres' = NoReturn
       ELSE /\ uuid' = uuid
            /\ spc' = "done"
            /\ sres' = NameErr
    /\ UNCHANGED <<fctx, fres, blobs, charmDocs>>
    /\ ChStep

storagePath == <<curl, uuid>>

\* storage.Put(storagePath, archive.Data, archive.Size)
storePut(ok) ==
    /\ spc = "put"
    /\ IF ok
       THEN /\ blobs' = blobs \cup {storagePath}
            /\ spc' = "update"
            /\ sres' = sres
       ELSE /\ blobs' = blobs
            /\ spc' = "done"
            /\ sres' = PutErr
    /\ UNCHANGED <<fctx, fres, charmDocs, curl, uuid, uerr, removeErr>>
    /\ ChStep

\* a.backendState.UpdateUploadedCharm(info): the pending charm gets the
\* archive's storage path; a charm that is not pending, or not there, or a
\* failing database give an error
storeUpdate(e) ==
    /\ spc = "update"
    /\ \/ e = NoErr /\ charmDocs[curl].state = "pending"
       \/ e \in AlreadyErrs /\ charmDocs[curl].state = "uploaded"
       \/ e = NotFound /\ charmDocs[curl].state = "absent"
       \/ e = StateErr
    /\ uerr' = e
    /\ IF e = NoErr
       THEN /\ charmDocs' = [charmDocs EXCEPT ![curl] = UploadedDoc(storagePath)]
            /\ spc' = "done"
            /\ sres' = NoErr
       ELSE /\ charmDocs' = charmDocs
            /\ spc' = "remove"
            /\ sres' = sres
    /\ UNCHANGED <<fctx, fres, blobs, curl, uuid, removeErr>>
    /\ ChStep

\* the error path with the archive left in storage
storeRemoveSkipped(ok) ==
    /\ spc = "remove"
    /\ removeErr' = ~ok
    /\ spc' = "done"
    /\ sres' = IF alreadyUploaded(uerr) THEN NoErr ELSE Trace(uerr)
    /\ UNCHANGED <<fctx, fres, blobs, charmDocs, curl, uuid, uerr>>
    /\ ChStep

\* storage.Remove(storagePath), its error only logged, and the return
storeRemove(ok) ==
    /\ spc = "remove"
    /\ blobs' = IF ok THEN blobs \ {storagePath} ELSE blobs
    /\ removeErr' = ~ok
    /\ spc' = "done"
    /\ sres' = IF alreadyUploaded(uerr) THEN NoErr ELSE Trace(uerr)
    /\ UNCHANGED <<fctx, fres, charmDocs, curl, uuid, uerr>>
    /\ ChStep

\* somebody else stores an archive of the pending charm and records it
OtherUpload(url) ==
    /\ charmDocs[url].state = "pending"
    /\ blobs' = blobs \cup {<<url, 0>>}
    /\ charmDocs' = [charmDocs EXCEPT ![url] = UploadedDoc(<<url, 0>>)]
    /\ UNCHANGED <<fctx, fres, spc, curl, uuid, uerr, removeErr, sres>>
    /\ ChStep

\* Charms that are pending or unknown, an empty storage, no call made.
ChInit ==
    /\ fctx = [authClient |-> TRUE, modelErr |-> FALSE]
    /\ fres = NoFacade
    /\ blobs = {}
    /\ charmDocs \in [Urls -> {PendingDoc, AbsentDoc}]
    /\ spc = "idle"
    /\ curl = 1
    /\ uuid = 0
    /\ uerr = NoErr
    /\ removeErr = FALSE
    /\ sres = NoReturn

ChNext ==
    \/ \E ctx \in Contexts : NewFacadeCall(ctx)
    \/ \E url \in Urls, uuidOK \in BOOLEAN : storeCharmArchive(url, uuidOK)
    \/ \E ok \in BOOLEAN : storePut(ok)
    \/ \E e \in AlreadyErrs \cup {NoErr, NotFound, StateErr} : storeUpdate(e)
    \/ \E ok \in BOOLEAN : storeRemove(ok)
    \/ \E url \in Urls : OtherUpload(url)

(***************************************************************************)
(* Specifications                                                          *)
(***************************************************************************)
\* a session nobody uses and a dial loop that has not started
SessIdle == SessInit

DialIdle ==
    /\ timeout = 0 /\ retryDelay = 1 /\ acceptFrom = 0
    /\ trusted = TRUE /\ caParses = TRUE /\ naddrs = 1
    /\ tag = "" /\ password = "" /\ loginOK = TRUE
    /\ dpc = "start" /\ cfgAddr = 0 /\ contacted = {}
    /\ dconn = "none" /\ inputLoop = "none" /\ logins = 0 /\ monStarted = FALSE
    /\ now = 0 /\ count = 0 /\ derr = Nil /\ lerr = Nil /\ dres = "none"

\* a tree with only its root
SupIdle == SupInit

\* an empty collection nobody inserts into
InsIdle ==
    /\ store = {} /\ ipc = "idle" /\ cur = 0 /\ attempt = 0
    /\ okay = FALSE /\ applied = FALSE /\ ires = NoResult

\* a watcher nobody kills and no event reaches
WatIdle == WatInit

\* a facade nobody asks for, with no charm known
ChIdle ==
    /\ fctx = [authClient |-> TRUE, modelErr |-> FALSE] /\ fres = NoFacade
    /\ blobs = {} /\ charmDocs = [u \in Urls |-> AbsentDoc] /\ spc = "idle"
    /\ curl = 1 /\ uuid = 0 /\ uerr = NoErr /\ removeErr = FALSE /\ sres = NoReturn

\* the supervision kernel
Init == SupInit /\ SessIdle /\ DialIdle /\ InsIdle /\ WatIdle /\ ChIdle

Next == SupNext

Spec == Init /\ [][Next]_vars

\* the API session
SessionInit == SessInit /\ SupIdle /\ DialIdle /\ InsIdle /\ WatIdle /\ ChIdle

SessionNext == SessNext

SessionSpec == SessionInit /\ [][SessionNext]_vars

\* The monitor goroutine is scheduled, and so is the rpc client's shutdown
\* of pending calls.
MonitorProgress ==
    OpenMakeBroken \/ OpenGoMonitor \/ MonitorPing \/ MonitorResult \/ MonitorWake

ShutdownProgress == \E c \in Callers : FailPending(c)

SessionFairSpec == SessionSpec /\ WF_vars(MonitorProgress) /\ WF_vars(ShutdownProgress)

\* Open's dial loop
OpenInit == DialInit /\ SupIdle /\ SessIdle /\ InsIdle /\ WatIdle /\ ChIdle

OpenStep == DialNext

DialSpec == OpenInit /\ [][OpenStep]_vars

\* Open's goroutine and the rpc client's goroutine are scheduled.
DialFairSpec == DialSpec /\ WF_vars(OpenStep)

\* Persistence.Insert
InsertInit == InsInit /\ SupIdle /\ SessIdle /\ DialIdle /\ WatIdle /\ ChIdle

InsertStep == InsNext

InsertSpec == InsertInit /\ [][InsertStep]_vars

\* the file watcher
WatcherInit == WatInit /\ SupIdle /\ SessIdle /\ DialIdle /\ InsIdle /\ ChIdle

WatcherStep == WatNext

WatcherSpec == WatcherInit /\ [][WatcherStep]_vars

\* The loop's goroutine and the catacomb's are scheduled, and so is a caller
\* of Wait; nothing makes anybody receive from Changes().
LoopProgress ==
    \/ loopDying
    \/ loopDeferWatcherClose
    \/ loopDeferCloseChanges
    \/ InvokeDone
    \/ NotifyWait

WatcherFairSpec == WatcherSpec /\ WF_vars(LoopProgress)

\* the charms facade
CharmsInit == ChInit /\ SupIdle /\ SessIdle /\ DialIdle /\ InsIdle /\ WatIdle

CharmsStep == ChNext

CharmsSpec == CharmsInit /\ [][CharmsStep]_vars

\* Every goroutine of the kernel that can take a step eventually takes one:
\* the trackers, the work functions that watch Dying, the final transition
\* to dead, and the callers blocked in Wait.
SupProgress ==
    \/ \E c \in Nodes : Propagate(c)
    \/ \E c \in Nodes : Report(c)
    \/ \E n \in Nodes : loop(n)
    \/ \E n \in Nodes : Finish(n)
    \/ WatcherWait(Root)

FairSpec == Spec /\ WF_vars(SupProgress)

(***************************************************************************)
(* Claims                                                                  *)
(***************************************************************************)

\* The cascade is complete: no dying node has a descendant whose Dying signal
\* is still open.
CascadeComplete ==
    \A n \in Nodes : \A d \in Descendants(n) : Dying(n) => Dying(d)

\* C1 (cascade): once a node is dying (Kill closes its Dying signal in the
\* same step), the Dying signal of every node registered under it, directly
\* or transitively, is eventually closed: whenever some descendant of a dying
\* node is not dying yet, the cascade eventually completes.
C1_Cascade == (~CascadeComplete) ~> CascadeComplete

\* C1 witness: the root is dying and its grandchild, registered under its
\* child, has had its Dying signal closed while its work was still running.
C1_Witness ==
    /\ parent[2] = Root /\ parent[3] = 2
    /\ Dying(Root) /\ Dying(2)
    /\ state[3] = "dying" /\ work[3] = "running"

\* C2 (teardown safety): a dead node's work function has returned and all
\* its tracked children are dead; once Wait on the root has returned, every
\* node of the tree is dead.
C2_TeardownSafety ==
    /\ \A n \in Nodes : state[n] = "dead" =>
          /\ work[n] = "returned"
          /\ \A c \in Children(n) : state[c] = "dead"
    /\ waitRes # Pending =>
          \A n \in {Root} \cup Descendants(Root) : state[n] = "dead"

\* C2 witness: Wait returned on a root that had a child and a grandchild.
C2_Witness ==
    /\ waitRes # Pending
    /\ parent[2] = Root /\ parent[3] = 2
    /\ state[3] = "dead"

SiblingsStopped ==
    \A c \in Nodes : collected[c] \in Errors =>
        /\ Dying(parent[c])
        /\ \A s \in Children(parent[c]) : Dying(s)

C5_BrokenOnce ==
    /\ [](broken <= 1)
    /\ [](broken = 1 => (mon = "done" /\ cst[Monitor] # "pending"))
    /\ [][ /\ broken >= 1 => (callId'[Monitor] = callId[Monitor] /\ cst'[Monitor] = cst[Monitor])
           /\ conn = "down" => conn' = "down" ]_vars

\* C5 witness: the channel was closed once, on a connection that is down,
\* where clients' later calls fail too.
C5_Witness ==
    /\ broken = 1
    /\ conn = "down"
    /\ mon = "done"
    /\ \A c \in Clients : cst[c] = "closed"

\* C6: every call that was pending when s.broken was closed ends with the
\* "closed" failure, and none of them stays pending for ever.
C6_PendingResolveClosed ==
    /\ [][ \A c \in atBreak : cst'[c] # cst[c] => cst'[c] = "closed" ]_vars
    /\ \A c \in Clients : (c \in atBreak) ~> (c \notin atBreak)

\* C7 (disconnection is detected): once the connection of a session is down,
\* s.broken is eventually closed.
C7_DisconnectDetected == (conn = "down") ~> (broken >= 1)

\* C7 witness: the connection went down while a ping was out; the ping
\* failed with the shutdown error and s.broken was closed.
C7_Witness ==
    /\ conn = "down"
    /\ broken = 1
    /\ cst[Monitor] = "closed"
    /\ callId[Monitor] >= 1

\* C8 (only a failed probe breaks the session): s.broken is closed only in a
\* step of the monitor whose ping has failed; a step in which a client's
\* call fails changes neither s.broken, nor the connection, nor any other
\* caller, nor the monitor.
C8_OnlyProbeBreaks ==
    [][ /\ broken' # broken =>
              (mon = "await" /\ cst[Monitor] \in {"error", "closed"} /\ mon' = "done")
        /\ \A c \in Clients :
              (cst[c] = "pending" /\ cst'[c] \in {"error", "closed"}) =>
                  /\ broken' = broken
                  /\ conn' = conn
                  /\ mon' = mon
                  /\ \A d \in Callers \ {c} : cst'[d] = cst[d] ]_vars

\* C8 witness: a client's call failed with the server's error, s.broken is
\* open, the connection is up and another client's call succeeded.
C8_Witness ==
    /\ cst[1] = "error"
    /\ cst[2] = "ok"
    /\ callId[2] > callId[1]
    /\ broken = 0
    /\ conn = "up"

\* C9 (call correlation): a caller that received a response received the one
\* carrying its own correlation id and the result of its own request; no
\* response reached two callers; the ids of pending calls are pairwise
\* distinct.
C9_CallCorrelation ==
    /\ \A c \in Callers :
          /\ got[c] # NoResp => (got[c].id = callId[c] /\ got[c].payload = c)
          /\ cst[c] \in {"ok", "error"} <=> got[c] # NoResp
    /\ \A c1, c2 \in Callers :
          (c1 # c2 /\ got[c1] # NoResp /\ got[c2] # NoResp) => got[c1].id # got[c2].id
    /\ \A p1, p2 \in pend : p1.id = p2.id => p1 = p2
    /\ \A c \in Callers : cst[c] = "pending" <=> [id |-> callId[c], caller |-> c] \in pend

\* C9 witness: three calls are out at once and the response to the last one
\* issued has arrived while the two earlier ones are still pending.
C9_Witness ==
    \E c \in Callers :
        /\ got[c] # NoResp
        /\ got[c].id = MaxCalls
        /\ \A d \in Callers \ {c} : cst[d] = "pending" /\ callId[d] < callId[c]

\* the most attempts a dial loop can make: one, plus one for each retry
\* delay (of one tick at least, the time a turn of the loop takes) that ends
\* before the timeout
MaxAttempts ==
    IF timeout = 0 THEN 1
    ELSE 1 + ((timeout - 1) \div (IF retryDelay = 0 THEN 1 ELSE retryDelay))

\* C10 (bounded dial retry): the loop stops dialing as soon as an attempt
\* succeeded, and Open returns a session exactly when an attempt succeeded
\* and the login, if any, did not fail; it returns the dial's failure only
\* when the last attempt failed and another retry delay would not end before
\* the timeout; the loop makes at most MaxAttempts attempts and can always
\* take its next step until it has returned.
C10_BoundedDialRetry ==
    /\ count <= MaxAttempts
    /\ dpc # "done" => ENABLED DialNext
    /\ dpc = "connected" <=> (count > 0 /\ dpc \notin {"dial", "done"} /\ derr = Nil)
    /\ dres = "session" <=> (count > 0 /\ dpc = "done" /\ derr = Nil /\ lerr = Nil)
    /\ dres = "session" => now >= acceptFrom
    /\ dres = "failure" =>
          /\ dpc = "done"
          /\ \/ derr = Nil /\ lerr # Nil
             \/ derr = BadCA /\ count = 0
             \/ derr \in {Refused, BadCert} /\ ~(now + retryDelay < timeout)
    /\ dpc = "done" => dres # "none"

\* C10 witness (timeout 200ms, retry delay 50ms, the endpoint refusing for
\* about 120ms, in ticks of 50ms): three attempts were refused and the fourth
\* gave the session.
C10_Witness ==
    /\ timeout = 4 /\ retryDelay = 1 /\ acceptFrom = 3
    /\ count = 4
    /\ dres = "session"

\* C12 (Kill is idempotent): a node's Dying channel is closed at most once;
\* every Kill, with or without a reason, on a node in any state leaves the
\* node dying or dead, leaves an error that is already recorded as it is,
\* and records its reason exactly when it is an error and none was recorded.
C12_KillIdempotent ==
    /\ [](\A n \in Nodes : dyingCloses[n] <= 1)
    /\ [][ \A n \in Nodes :
             /\ Stop(n) => (Dying(n)' /\ err'[n] = err[n])
             /\ \A r \in Errors : Kill(n, r) =>
                   /\ Dying(n)'
                   /\ err'[n] = (IF err[n] = Nil THEN r ELSE err[n]) ]_vars

\* C12 witness: the root was killed with an error while its work function
\* was running and no child had reported (only a Kill can have recorded it),
\* and its child was killed without a reason; both channels were closed once.
C12_Witness ==
    /\ state[Root] = "dying" /\ work[Root] = "running"
    /\ \A c \in Nodes : collected[c] = Pending
    /\ err[Root] = DiskFull
    /\ parent[2] = Root /\ state[2] = "dying" /\ err[2] = Nil
    /\ dyingCloses[Root] = 1 /\ dyingCloses[2] = 1

\* C15 (Register): a Register on a node that is not alive starts nothing: the
\* task is rejected and is never a child, never runs and never records
\* anything; a Register on an alive node starts the task as a child of that
\* node; no task starts under a node that is dying or dead; and a node is
\* never dead before all its children are.
C15_Register ==
    /\ [](\A c \in Nodes : state[c] = "rejected" =>
             /\ parent[c] = NoParent
             /\ work[c] = "running" /\ err[c] = Nil
             /\ collected[c] = Pending /\ dyingCloses[c] = 0)
    /\ [](\A p \in Nodes : state[p] = "dead" =>
             \A c \in Children(p) : state[c] = "dead")
    /\ [][ \A c \in Nodes :
             /\ \A p \in Nodes : Register(p, c) =>
                   IF state[p] = "alive"
                     THEN state'[c] = "alive" /\ parent'[c] = p
                     ELSE state'[c] = "rejected" /\ parent'[c] = NoParent
             /\ (state[c] = "unborn" /\ state'[c] = "alive") =>
                   (parent'[c] \in Nodes /\ state[parent'[c]] = "alive")
             /\ state[c] = "rejected" => state'[c] = "rejected"
             /\ parent[c] # NoParent => parent'[c] = parent[c] ]_vars

\* C15 witness: the root took one task while alive and refused another while
\* dying; Wait returned after the accepted child was dead.
C15_Witness ==
    /\ parent[2] = Root /\ state[2] = "dead"
    /\ state[3] = "rejected"
    /\ waitRes # Pending

\* C16 (Kill ordering): the step of a Kill closes the node's Dying channel
\* and changes no child: no child is stopped or waited for by Kill. Every
\* live child of a dying node can observe the closed channel at once, and no
\* child is registered under a node whose Dying channel is closed.
C16_KillOrdering ==
    /\ [][ \A n \in Nodes :
             (Stop(n) \/ \E r \in Errors : Kill(n, r)) =>
                 /\ Dying(n)'
                 /\ \A c \in Children(n) :
                       state'[c] = state[c] /\ work'[c] = work[c] ]_vars
    /\ [](\A c \in Nodes :
             (parent[c] # NoParent /\ state[c] = "alive" /\ Dying(parent[c]))
                => ENABLED Propagate(c))
    /\ [][ \A c \in Nodes : parent'[c] # parent[c] => ~Dying(parent'[c]) ]_vars

\* C16 witness: Kill returned on the root with an error no child and no work
\* function produced, and a child registered before is still alive and
\* running.
C16_Witness ==
    /\ state[Root] = "dying" /\ work[Root] = "running"
    /\ err[Root] = DiskFull
    /\ \A c \in Nodes : collected[c] = Pending
    /\ parent[2] = Root /\ state[2] = "alive" /\ work[2] = "running"

\* C17 (a clean child exit is not a failure): the step that collects a child
\* that finished without error changes no node's state, closes no Dying
\* channel and records no error; the death of such a child changes nothing
\* but the child.
C17_CleanChildExit ==
    [][ \A c \in Nodes :
          /\ (collected[c] = Pending /\ collected'[c] = Nil) =>
                (state' = state /\ dyingCloses' = dyingCloses /\ err' = err)
          /\ (state[c] = "dying" /\ state'[c] = "dead" /\ err[c] = Nil) =>
                /\ \A n \in Nodes \ {c} : state'[n] = state[n]
                /\ dyingCloses' = dyingCloses /\ err' = err ]_vars

\* C17 witness: a child finished without error and was collected while its
\* parent and its sibling are alive and running, with no error recorded.
C17_Witness ==
    /\ parent[2] = Root /\ parent[3] = Root
    /\ collected[2] = Nil
    /\ state[Root] = "alive" /\ work[Root] = "running" /\ err[Root] = Nil
    /\ state[3] = "alive" /\ work[3] = "running"

\* C18 (no Wait deadlock): once the root's work function has returned, with
\* or without children registered, Wait on the root eventually returns.
C18_WaitReturns == (work[Root] = "returned") ~> (waitRes # Pending)

\* C18 witness: Wait returned on a root whose work function returned before
\* any child was registered.
C18_Witness ==
    /\ waitRes = Nil
    /\ work[Root] = "returned"
    /\ \A n \in Nodes : parent[n] = NoParent
    /\ \A n \in Nodes \ {Root} : state[n] = "rejected"

\* The steps of a node's lifecycle.
LifecycleStep(from, to) ==
    \/ to = from
    \/ from = "unborn" /\ to \in {"alive", "rejected"}
    \/ from = "alive" /\ to = "dying"
    \/ from = "dying" /\ to = "dead"

\* C19 (monotone lifecycle): a node only moves alive -> dying -> dead, never
\* back; its Dying channel is closed exactly while it is dying or dead, and
\* once closed it is never open again.
C19_LifecycleMonotone ==
    /\ [][ \A n \in Nodes :
             /\ LifecycleStep(state[n], state'[n])
             /\ dyingCloses'[n] >= dyingCloses[n] ]_vars
    /\ [](\A n \in Nodes : dyingCloses[n] = (IF Dying(n) THEN 1 ELSE 0))

\* C19 witness: the three stages at once: the root alive, one child dying,
\* another child dead.
C19_Witness ==
    /\ parent[2] = Root /\ parent[3] = Root
    /\ state[Root] = "alive"
    /\ state[2] = "dying"
    /\ state[3] = "dead"

\* C20 (clean stop): Watcher.Kill() records no error, and neither does the
\* loop's return on Dying; Wait returns nil whenever no error is recorded,
\* so also whenever no error reason ever reached any node of the tree.
C20_CleanStopNil ==
    [][ /\ \A n \in Nodes : (Stop(n) \/ loop(n)) => err' = err
        /\ (waitRes = Pending /\ waitRes' # Pending) =>
              /\ err[Root] = Nil => waitRes' = Nil
              /\ (\A n \in Nodes : firstReason[n] = Nil) => waitRes' = Nil ]_vars

\* C20 witness: the root and its child are dead, no error reason ever reached
\* a node, and Wait returned nil.
C20_Witness ==
    /\ waitRes = Nil
    /\ state[Root] = "dead"
    /\ parent[2] = Root /\ state[2] = "dead" /\ collected[2] = Nil
    /\ \A n \in Nodes : firstReason[n] = Nil /\ err[n] = Nil

\* C13 (Close is idempotent): whatever the number of Close calls, the
\* underlying connection is released exactly once, by the first of them;
\* after any Close the session is closed, and it stays closed.
C13_CloseIdempotent ==
    /\ [](released <= 1)
    /\ [](closeCalls >= 1 => (closing /\ released = 1 /\ conn = "down"))
    /\ [][ closing => (closing' /\ conn' = "down" /\ released' = released) ]_vars

\* C13 witness: Close was called twice on a session whose connection was up;
\* the connection was released once.
C13_Witness ==
    /\ closeCalls = 2
    /\ released = 1
    /\ closing /\ conn = "down"
    /\ broken = 0

\* C14 (Close releases pending calls): once Close has been called, a call
\* only ever ends with the "closed" failure: the calls that were pending at
\* the Close and the calls issued after it; no call issued after the Close
\* is left pending; and the table of pending calls eventually is empty.
C14_CloseReleasesCalls ==
    /\ [][ closeCalls >= 1 =>
             \A c \in Callers : cst'[c] # cst[c] => cst'[c] = "closed" ]_vars
    /\ [](closeCalls >= 1 =>
             \A c \in Callers : cst[c] = "pending" => c \in atClose)
    /\ (closeCalls >= 1) ~> (pend = {})

\* C14 witness: client 1's call was pending at the Close and ended "closed";
\* client 2 called after the Close and got "closed" at once; nothing is
\* pending.
C14_Witness ==
    /\ closeCalls >= 1
    /\ 1 \in atClose /\ cst[1] = "closed"
    /\ 2 \notin atClose /\ cst[2] = "closed"
    /\ pend = {}
    /\ broken = 0

\* C11: once an attempt has failed on the endpoint's certificate, or the
\* login on the credentials, Open makes no further connection attempt.
C11_NoRetryUnrecoverable ==
    [][ (derr = BadCert \/ lerr = BadCreds) => count' = count ]_vars

\* Open has got past the dial loop with a connection.
Connected == dconn # "none"

\* C21 (optional login): a Login request is sent only when info.Tag or
\* info.Password is not empty, and then exactly one is sent once the
\* connection is established; with both empty Open returns a session and no
\* Login request was sent.
C21_LoginOnlyWithIdentity ==
    /\ logins <= 1
    /\ logins > 0 => (tag # "" \/ password # "")
    /\ (dpc = "done" /\ Connected) =>
          logins = (IF tag # "" \/ password # "" THEN 1 ELSE 0)
    /\ (dpc = "done" /\ Connected /\ tag = "" /\ password = "") =>
          (dres = "session" /\ logins = 0)

\* C21 witness: tag and password are empty, the server would reject a login,
\* and Open returned a session without having sent one.
C21_Witness ==
    /\ tag = "" /\ password = ""
    /\ ~loginOK
    /\ dres = "session"
    /\ logins = 0
    /\ count >= 1

\* C22 (failed login): when Login has failed, Open has returned a failure and
\* no session, the connection is closed, no monitor was started, nothing of
\* Open runs any more, and the rpc client's goroutine eventually stops.
C22_LoginFailure ==
    /\ [](lerr # Nil =>
             /\ dpc = "done" /\ dres = "failure"
             /\ dconn = "closed"
             /\ ~monStarted)
    /\ [][ lerr # Nil =>
             /\ dres' = dres /\ dconn' = dconn /\ monStarted' = monStarted
             /\ count' = count /\ logins' = logins ]_vars
    /\ (lerr # Nil) ~> (inputLoop = "stopped")

\* C22 witness: the server rejected the password; the connection is closed
\* and the rpc client's goroutine has stopped.
C22_Witness ==
    /\ tag = "user-admin" /\ password = "secret"
    /\ lerr = BadCreds
    /\ dres = "failure"
    /\ dconn = "closed"
    /\ inputLoop = "stopped"

\* C23 (trust validation is never skipped): a connection is established, a
\* Login is sent, a session is returned and a monitor is started only when
\* the CA certificate parsed and the endpoint's certificate verified against
\* it; with a CA certificate that does not parse no attempt is made and Open
\* fails.
C23_TrustNeverSkipped ==
    /\ Connected => (caParses /\ trusted)
    /\ logins > 0 => (Connected /\ caParses /\ trusted)
    /\ (dres = "session" \/ monStarted \/ inputLoop # "none") => (caParses /\ trusted)
    /\ ~caParses => (count = 0 /\ contacted = {} /\ dres # "session")
    /\ (dpc = "done" /\ ~caParses) => (dres = "failure" /\ derr = BadCA)

\* C23 witness: an endpoint that accepts connections with a certificate the
\* CA did not sign: every attempt failed on the certificate and no Login was
\* sent, though a tag and a password were given.
C23_Witness ==
    /\ caParses /\ ~trusted
    /\ tag # "" /\ password # ""
    /\ acceptFrom = 0
    /\ count >= 2
    /\ dres = "failure" /\ derr = BadCert
    /\ logins = 0

\* C24 (first address only): cfg holds the first address of info.Addrs;
\* every attempt that was made went to it and no other address was
\* contacted.
C24_FirstAddressOnly ==
    /\ cfgAddr \in {0, 1}
    /\ contacted \subseteq {1}
    /\ (count > 0 /\ dpc # "dial") => contacted = {1}

\* C24 witness: two addresses; several attempts to the first one failed and
\* Open returned the failure without contacting the second.
C24_Witness ==
    /\ naddrs = 2
    /\ count >= 2
    /\ dres = "failure" /\ derr = Refused
    /\ contacted = {1}

\* C29 (a session needs a successful attempt): a returned session holds an
\* open connection made by an attempt that succeeded; no attempt follows a
\* success; once the CA certificate has parsed, Open makes at least one
\* attempt whatever the timeout; and when the loop ends in failure Open has
\* no connection and returns the error of the last attempt.
C29_SessionOnlyAfterSuccess ==
    /\ [](dres = "session" =>
             (count >= 1 /\ derr = Nil /\ dconn = "open" /\ now >= acceptFrom))
    /\ []((dpc \in {"connected", "done"} /\ caParses) => count >= 1)
    /\ [](dpc = "connected" => dconn = "open")
    /\ [][ dconn # "none" => count' = count ]_vars
    /\ []((dres = "failure" /\ lerr = Nil /\ caParses) =>
             /\ dconn = "none"
             /\ derr \in {Refused, BadCert}
             /\ derr = DialConfig(now))

\* C29 witness: with a timeout of zero one attempt was made, it succeeded and
\* Open returned the session.
C29_Witness ==
    /\ timeout = 0
    /\ count = 1
    /\ dres = "session"
    /\ dconn = "open"

\* C30 (the monitor does not outlive a closed session): st.broken holds a
\* channel before the monitor starts and before the session is used; after a
\* Close the monitor's next probe fails with "closed", and eventually
\* s.broken is closed and the monitor has returned.
C30_MonitorEndsAfterClose ==
    /\ [](mon # "unstarted" => brokenMade)
    /\ [](broken >= 1 => brokenMade)
    /\ [][ (closeCalls >= 1 /\ mon = "ping" /\ mon' # "ping") =>
              (mon' = "await" /\ cst'[Monitor] = "closed") ]_vars
    /\ (closeCalls >= 1) ~> (broken = 1 /\ mon = "done")

\* C30 witness: Close was called while no ping was pending; the monitor's
\* last ping, which follows an earlier one, failed with "closed" without
\* reaching the server; s.broken is closed and the monitor has returned.
C30_Witness ==
    /\ closeCalls >= 1
    /\ Monitor \notin atClose
    /\ got[Monitor] = NoResp /\ callId[Monitor] >= 1
    /\ cst[Monitor] = "closed"
    /\ broken = 1 /\ mon = "done"

\* C25 (Insert's result): when Insert has returned, it returned (true, nil)
\* exactly when the runner applied its ops, which happens on the first
\* attempt only; when the runner asked for a second attempt nothing was
\* applied and it returned (false, nil); when the runner failed it returned
\* (false, error).
C25_InsertResult ==
    /\ attempt <= 1
    /\ applied => attempt = 0
    /\ (ipc = "idle" /\ ires # NoResult) =>
          /\ ires.ok <=> applied
          /\ ires.ok => ires.err = Nil
          /\ attempt > 0 => (ires = [ok |-> FALSE, err |-> Nil] /\ ~applied)
          /\ ires.err # Nil => (ires = [ok |-> FALSE, err |-> TxnFailed] /\ ~applied)
          /\ (attempt = 0 /\ ires.err = Nil) => ires.ok

\* C25 witness: the record was already there: the runner asked for a second
\* attempt, Insert applied nothing and returned (false, nil).
C25_Witness ==
    /\ ipc = "idle"
    /\ attempt = 1
    /\ cur \in store
    /\ ~applied
    /\ ires = [ok |-> FALSE, err |-> Nil]

\* C26: A Watcher is responsive to cancellation: once Kill() was called its
\* loop returns and a call of Wait() returns, wherever the loop is, also when
\* it has taken a matching event and nobody receives from Changes().
C26_KillResponsive == wdying ~> (wpc = "returned" /\ waited)

\* C27: When the Watcher's loop exits the inotify watcher is closed and then
\* the Changes channel, each exactly once; no value is sent on Changes after
\* it was closed, and Wait does not return before both closes happened.
C27_ClosesOnExit ==
    /\ [](/\ watcherCloses <= 1
          /\ changesCloses <= 1
          /\ changesCloses = 1 => watcherCloses = 1
          /\ wpc = "returned" <=> changesCloses = 1
          /\ wpc \in {"closeChanges", "returned"} <=> watcherCloses = 1
          /\ wdead => wpc = "returned"
          /\ waited => (wdead /\ watcherCloses = 1 /\ changesCloses = 1))
    /\ [][changesCloses > 0 => (delivered' = delivered /\ wpc' # "send")]_vars

\* The loop was killed after it delivered a value, it has run its deferred
\* closes and a Wait has returned.
C27_Witness ==
    /\ wpc = "returned" /\ waited /\ Len(delivered) > 0
    /\ watcherCloses = 1 /\ changesCloses = 1

\* an event for the watched file with the create or the delete bit
Matching(event) ==
    /\ event.Name = Join(WatcherPath, Namespace)
    /\ HasBit(event.Mask, InCreate) \/ HasBit(event.Mask, InDelete)

\* the values a sequence of events stands for: one per matching event, in
\* order, TRUE when the create bit is set
RECURSIVE ExpectedChanges(_)
ExpectedChanges(es) ==
    IF es = <<>> THEN <<>>
    ELSE IF Matching(Head(es))
         THEN <<HasBit(Head(es).Mask, InCreate)>> \o ExpectedChanges(Tail(es))
         ELSE ExpectedChanges(Tail(es))

\* the value the loop is in the middle of sending
Sending == IF wpc = "send" THEN <<created>> ELSE <<>>

\* C28: The Watcher delivers on Changes one value per event for the watched
\* path with the create or delete bit, in event order: TRUE when the create
\* bit is set (also with both bits), FALSE for delete only; other events
\* deliver nothing, and an inotify error is logged without ending the loop.
C28_OneValuePerEvent ==
    /\ [](delivered \o Sending = ExpectedChanges(taken))
    /\ [][logged' # logged =>
            /\ wpc = "select" /\ wpc' = "select"
            /\ UNCHANGED <<delivered, taken, wdying, watcherCloses, changesCloses>>]_vars

\* The loop logged an error, dropped a create event for another file, then
\* delivered TRUE for an event with both bits and FALSE for a delete.
C28_Witness ==
    /\ wpc = "select" /\ logged = 1
    /\ taken = << [Name |-> Join(WatcherPath, "other"), Mask |-> InCreate],
                  [Name |-> watchPath, Mask |-> InCreate + InDelete],
                  [Name |-> watchPath, Mask |-> InDelete] >>
    /\ delivered = <<TRUE, FALSE>>

\* C31: NewFacade reports failure: whenever NewFacadeV3 returns an error
\* (the caller is not a client, or the model cannot be read) NewFacade
\* returns a non-nil error and no facade; it never returns a nil facade
\* together with a nil error.
C31_NewFacadeReportsFailure ==
    fres # NoFacade =>
        /\ NewFacadeV3(fctx).err # NoErr => (fres.err # NoErr /\ fres.api = "nil")
        /\ ~(fres.api = "nil" /\ fres.err = NoErr)

\* the current call of storeCharmArchive has returned after its Put
\* succeeded
StoredAndReturned == spc = "done" /\ sres \notin {NameErr, PutErr}

\* C32 as stated: after storeCharmArchive returns, the archive it put in
\* storage is still there only if UpdateUploadedCharm succeeded.
C32_ArchiveOnlyIfRecorded ==
    (StoredAndReturned /\ storagePath \in blobs) => uerr = NoErr

\* C32 amended: after storeCharmArchive returns, the archive it put in storage
\* is still there only if UpdateUploadedCharm succeeded or storage.Remove
\* failed; when the update fails Remove is called, and the result is nil if
\* the charm was already uploaded by somebody else and the update error
\* otherwise; when Put fails nothing is recorded in state.
C32_StoreConsistent ==
    /\ (StoredAndReturned /\ storagePath \in blobs) => (uerr = NoErr \/ removeErr)
    /\ (StoredAndReturned /\ uerr = NoErr) =>
          /\ sres = NoErr
          /\ storagePath \in blobs
          /\ charmDocs[curl] = UploadedDoc(storagePath)
    /\ (StoredAndReturned /\ uerr # NoErr) =>
          /\ removeErr <=> storagePath \in blobs
          /\ uerr \in AlreadyErrs => sres = NoErr
          /\ uerr \notin AlreadyErrs => (sres # NoErr /\ Cause(sres) = Cause(uerr))
    /\ \A u \in Urls : \A n \in 1..MaxStores :
          charmDocs[u] = UploadedDoc(<<u, n>>) =>
              /\ <<u, n>> \in blobs
              /\ (n = uuid /\ sres # NameErr) =>
                    (curl = u /\ spc = "done" /\ uerr = NoErr /\ sres = NoErr)
    /\ (spc = "done" /\ sres = PutErr) =>
          /\ uerr = NoErr
          /\ charmDocs[curl] # UploadedDoc(storagePath)
          /\ storagePath \notin blobs

\* The update failed because somebody else had uploaded the charm, the
\* archive was removed and the call returned nil: storage holds the other
\* upload only.
C32_Witness ==
    /\ StoredAndReturned /\ uerr = Trace(ErrCharmAlreadyUploaded) /\ ~removeErr
    /\ sres = NoErr /\ storagePath \notin blobs
    /\ charmDocs[curl] = UploadedDoc(<<curl, 0>>) /\ <<curl, 0>> \in blobs

====
